---- MODULE Spec2Model ----
(***************************************************************************)
(* Window click listeners attached from React function components.        *)
(*                                                                         *)
(* The repository holds several versions of one small program (an App     *)
(* component, in most versions with a Child component) that differ only   *)
(* in where window.addEventListener is called and whether the effect      *)
(* returns a cleanup.  `program` names the version that is running:       *)
(*   "App.js"    src/src/App.js       Child, deps [isActive], cleanup     *)
(*   "part_000"  src/unnamed/part_000 Child, deps [], cleanup             *)
(*   "part_001"  src/unnamed/part_001 Child always rendered, deps [],     *)
(*                                    no cleanup                          *)
(*   "PartTwo"   src/README.md:152-175 App effect, no deps, no cleanup    *)
(*   "TLDR"      src/README.md:14-42  App effect, deps [stateToggle],     *)
(*                                    cleanup                             *)
(*   "PartOne"   src/README.md:91-111 App registers in the render body    *)
(*   "PartThree" src/README.md:227-247 the Child of part_001, rendered    *)
(*                                    as {isOnline ? <Child /> : null}    *)
(*                                                                         *)
(* React 17 runs a render and its commit synchronously inside the click   *)
(* handler's task and runs the passive effects (useEffect cleanups, then  *)
(* useEffect bodies) later, in a task of their own; pending passive       *)
(* effects are flushed before the next discrete event is handled.         *)
(***************************************************************************)
EXTENDS Integers, Sequences, FiniteSets

\* Bound on the number of renders of each component in a run.
MaxRenders == 5

VARIABLES
    program,            \* which version of the program runs
    isOnline,           \* App state, useState(false)
    isActive,           \* Child state, useState(false) (App.js only)
    stateToggle,        \* App state, useState(false) (README TL;DR only)
    mounted,            \* Child is in the committed tree
    instance,           \* number of Child instances mounted so far
    appRenderCounter,   \* module-level counter of App renders
    childRenderCounter, \* module-level counter of Child renders
    effDeps,            \* dependency array stored with the effect hook
    effDestroy,         \* cleanup returned by the last effect run: <<h>> or <<>>
    pending,            \* passive effects scheduled by the last commit
    pc,                 \* "idle", or "flushing" inside the passive-effects task
    listeners,          \* window's click listeners, in registration order
    calls,              \* calls made on window since the current owner was created
    lastEval,           \* what the last commit did with the effect hook
    clicksLogged        \* "click" lines logged by the last click on window

vars == <<program, isOnline, isActive, stateToggle, mounted, instance, appRenderCounter,
          childRenderCounter, effDeps, effDestroy, pending, pc, listeners,
          calls, lastEval, clicksLogged>>

Programs == {"App.js", "part_000", "part_001", "PartTwo", "TLDR", "PartOne",
             "PartThree"}

----------------------------------------------------------------------------
(* Values *)

\* A function value created by a render: `() => console.log("click")`.
\* Two evaluations of the arrow expression give two distinct references;
\* the owner instance and the number of the render identify the reference.
Handler(owner, render) == [owner |-> owner, render |-> render]

\* A dependency array passed to useEffect, and the omitted argument.
Deps(vals) == [given |-> TRUE, vals |-> vals]
NoDeps == [given |-> FALSE, vals |-> <<>>]

\* React's comparison of the dependency arrays of two renders: the effect is
\* skipped only when an array was given and every element is the same.
areHookInputsEqual(nextDeps, prevDeps) ==
    /\ nextDeps.given
    /\ prevDeps.given
    /\ Len(nextDeps.vals) = Len(prevDeps.vals)
    /\ \A i \in 1..Len(nextDeps.vals) : nextDeps.vals[i] = prevDeps.vals[i]

RECURSIVE Contains(_, _)
Contains(list, h) ==
    IF list = <<>> THEN FALSE
    ELSE Head(list) = h \/ Contains(Tail(list), h)

AddCall(h) == [op |-> "add", h |-> h]
RemoveCall(h) == [op |-> "remove", h |-> h]

\* window as the code sees it: the click listeners it holds and the calls
\* that were made on it.
Window(l, c) == [listeners |-> l, calls |-> c]

\* window.addEventListener("click", h): appends h unless the same reference
\* is already registered for the event.
addEventListener(w, h) ==
    Window(IF Contains(w.listeners, h) THEN w.listeners
                                       ELSE Append(w.listeners, h),
           Append(w.calls, AddCall(h)))

\* window.removeEventListener("click", h): removes the registration of this
\* reference; nothing happens when it is not registered.
removeEventListener(w, h) ==
    Window(SelectSeq(w.listeners, LAMBDA x : x # h),
           Append(w.calls, RemoveCall(h)))

\* Passive effects of one commit: React 17 runs every cleanup of the commit
\* before any effect body.
CleanupOp(h) == [op |-> "destroy", h |-> h, active |-> FALSE]
EffectOp(h, active) == [op |-> "create", h |-> h, active |-> active]

Cleanups(destroy) == [i \in 1..Len(destroy) |-> CleanupOp(destroy[i])]

Schedule(destroy, create) == Cleanups(destroy) \o create

\* What a commit did with the effect hook: the cleanup of the previous run,
\* the handler of this render, and the length of `calls` at the commit.
Eval(kind, prev, new, from) ==
    [kind |-> kind, prev |-> prev, new |-> new, from |-> from]

\* The dependency arrays of the effects that are scheduled by the first
\* render of App.
P001_deps_omitted == NoDeps

\* part_001: useEffect(..., [])
P001_deps == Deps(<<>>)

PartTwo_deps_empty == Deps(<<>>)

\* README Part Two: useEffect(...) with no second argument
PartTwo_deps == NoDeps

\* README TL;DR: useEffect(..., [stateToggle])
TLDR_deps(toggle) == Deps(<<toggle>>)

PartOne_body_sameRef(w, render) == addEventListener(w, Handler(0, 0))

\* README Part One, in the body of App:
\* window.addEventListener("click", () => console.log("click"));
\* every render evaluates the arrow expression again.
PartOne_body(w, render) == addEventListener(w, Handler(0, render))

----------------------------------------------------------------------------
(* Initial state: after ReactDOM.render(<App />) has committed. *)

Init ==
    /\ program \in Programs
    /\ isOnline = FALSE
    /\ isActive = FALSE
    /\ stateToggle = FALSE
    /\ appRenderCounter = 1
    /\ pc = "idle"
    /\ clicksLogged = 0
    /\ effDestroy = <<>>
    /\ IF program = "PartOne"
       THEN \* the first render of App has run the body of App
            LET w == PartOne_body(Window(<<>>, <<>>), 1) IN
            /\ listeners = w.listeners
            /\ calls = w.calls
       ELSE /\ listeners = <<>>
            /\ calls = <<>>
    /\ IF program = "part_001"
       THEN \* <Child /> is rendered unconditionally
            /\ mounted = TRUE
            /\ instance = 1
            /\ childRenderCounter = 1
            /\ effDeps = P001_deps
            /\ pending = <<EffectOp(Handler(1, 1), FALSE)>>
            /\ lastEval = Eval("mount", <<>>, Handler(1, 1), 0)
       ELSE IF program = "TLDR"
       THEN \* the effect belongs to App, owner 0
            /\ mounted = FALSE
            /\ instance = 0
            /\ childRenderCounter = 0
            /\ effDeps = TLDR_deps(FALSE)
            /\ pending = <<EffectOp(Handler(0, 1), FALSE)>>
            /\ lastEval = Eval("mount", <<>>, Handler(0, 1), 0)
       ELSE IF program = "PartTwo"
       THEN \* the effect belongs to App, owner 0
            /\ mounted = FALSE
            /\ instance = 0
            /\ childRenderCounter = 0
            /\ effDeps = PartTwo_deps
            /\ pending = <<EffectOp(Handler(0, 1), FALSE)>>
            /\ lastEval = Eval("mount", <<>>, Handler(0, 1), 0)
       ELSE \* no Child is rendered and no effect is scheduled
            /\ mounted = FALSE
            /\ instance = 0
            /\ childRenderCounter = 0
            /\ effDeps = NoDeps
            /\ pending = <<>>
            /\ lastEval = Eval("none", <<>>, Handler(0, 0), 0)

\* A click on a button is handled when no task is running; React flushes the
\* passive effects that are still pending before it handles the click.
CanHandleClick == pc = "idle" /\ pending = <<>>

AfterOp == IF Tail(pending) = <<>> THEN "idle" ELSE "flushing"

----------------------------------------------------------------------------
(* What React does with a component that calls useEffect once *)

\* First render and commit of a new Child instance: the render creates
\* `handler`, and the effect is scheduled with the values of this render.
MountChild(deps, active) ==
    LET handler == Handler(instance + 1, childRenderCounter + 1) IN
    /\ mounted' = TRUE
    /\ instance' = instance + 1
    /\ childRenderCounter' = childRenderCounter + 1
    /\ effDeps' = deps
    /\ effDestroy' = <<>>
    /\ pending' = Schedule(<<>>, <<EffectOp(handler, active)>>)
    /\ calls' = <<>>
    /\ lastEval' = Eval("mount", <<>>, handler, 0)

\* Child leaves the tree: the cleanup of its last effect run is scheduled.
UnmountChild ==
    /\ mounted' = FALSE
    /\ pending' = Schedule(effDestroy, <<>>)
    /\ effDestroy' = <<>>
    /\ effDeps' = NoDeps
    /\ lastEval' = Eval("unmount", effDestroy, Handler(0, 0), Len(calls))
    /\ UNCHANGED <<instance, childRenderCounter, calls>>

\* A later render of the component that owns the effect: the effect is
\* scheduled again (cleanup of the previous run first) unless the dependency
\* arrays are equal.
Rerender(nextDeps, handler, active) ==
    /\ effDeps' = nextDeps
    /\ IF areHookInputsEqual(nextDeps, effDeps)
       THEN /\ pending' = <<>>
            /\ lastEval' = Eval("same", effDestroy, handler, Len(calls))
       ELSE /\ pending' = Schedule(effDestroy, <<EffectOp(handler, active)>>)
            /\ lastEval' = Eval("update", effDestroy, handler, Len(calls))
    /\ UNCHANGED <<mounted, instance, effDestroy, calls>>

\* One passive effect has run and left window as w; `destroy` is the cleanup
\* it returned (kept from before when a cleanup ran).
Ran(w, destroy) ==
    /\ listeners' = w.listeners
    /\ calls' = w.calls
    /\ effDestroy' = destroy
    /\ pending' = Tail(pending)
    /\ pc' = AfterOp
    /\ UNCHANGED <<program, isOnline, isActive, stateToggle, mounted, instance,
                   appRenderCounter, childRenderCounter, effDeps, lastEval,
                   clicksLogged>>

NextIs(op) == pending # <<>> /\ Head(pending).op = op

----------------------------------------------------------------------------
(* src/src/App.js *)

AppJs_useState_kept == isActive

\* const [isActive, setIsActive] = useState(false): the state of a new Child
AppJs_useState == FALSE

\* useEffect(..., [isActive])
AppJs_deps(active) == Deps(<<active>>)

AppJs_effect_unconditional(w, active, handleClick) ==
    addEventListener(w, handleClick)

\* if (isActive) window.addEventListener("click", handleClick);
AppJs_effect(w, active, handleClick) ==
    IF active THEN addEventListener(w, handleClick) ELSE w

AppJs_cleanup_otherRef(w, handleClick) ==
    removeEventListener(w, Handler(handleClick.owner, 0))

AppJs_cleanup_nextRender(w, handleClick) ==
    removeEventListener(w, Handler(handleClick.owner, handleClick.render + 1))

AppJs_cleanup_guarded(w, handleClick) ==
    IF Contains(w.listeners, handleClick)
    THEN removeEventListener(w, handleClick)
    ELSE w

\* return () => window.removeEventListener("click", handleClick);
AppJs_cleanup(w, handleClick) ==
    removeEventListener(w, handleClick)

\* "Toggle Status": setIsOnline(!isOnline); App renders again and
\* {isOnline ? <Child /> : null} mounts or unmounts Child.  A new Child
\* starts with useState(false).
AppJs_ToggleStatus ==
    /\ program = "App.js"
    /\ CanHandleClick
    /\ appRenderCounter < MaxRenders
    /\ isOnline \/ childRenderCounter < MaxRenders
    /\ isOnline' = ~isOnline
    /\ appRenderCounter' = appRenderCounter + 1
    /\ IF ~isOnline
       THEN /\ isActive' = AppJs_useState
            /\ MountChild(AppJs_deps(AppJs_useState), AppJs_useState)
       ELSE /\ UNCHANGED isActive
            /\ UnmountChild
    /\ UNCHANGED <<program, stateToggle, pc, listeners, clicksLogged>>

\* "Toggle Listener": setIsActive(!isActive); Child renders again with a new
\* handleClick.
AppJs_ToggleListener ==
    /\ program = "App.js"
    /\ CanHandleClick
    /\ mounted
    /\ childRenderCounter < MaxRenders
    /\ isActive' = ~isActive
    /\ childRenderCounter' = childRenderCounter + 1
    /\ Rerender(AppJs_deps(~isActive),
                Handler(instance, childRenderCounter + 1), ~isActive)
    /\ UNCHANGED <<program, isOnline, stateToggle, appRenderCounter, pc,
                   listeners, clicksLogged>>

\* The effect of Child runs and returns its cleanup.
AppJs_Effect ==
    /\ program = "App.js"
    /\ NextIs("create")
    /\ LET handleClick == Head(pending).h IN
       Ran(AppJs_effect(Window(listeners, calls), Head(pending).active,
                        handleClick),
           <<handleClick>>)

\* The cleanup returned by an earlier run of the effect of Child runs.
AppJs_Cleanup ==
    /\ program = "App.js"
    /\ NextIs("destroy")
    /\ Ran(AppJs_cleanup(Window(listeners, calls), Head(pending).h),
           effDestroy)

----------------------------------------------------------------------------
(* src/unnamed/part_000: Child registers on mount and cleans up *)

\* useEffect(..., [])
P000_deps == Deps(<<>>)

\* window.addEventListener("click", handleClick);
P000_effect(w, handleClick) == addEventListener(w, handleClick)

\* return () => window.removeEventListener("click", handleClick);
P000_cleanup(w, handleClick) == removeEventListener(w, handleClick)

\* "Toggle Status": setIsOnline(!isOnline); {isOnline ? <Child /> : null}
\* mounts or unmounts Child.
P000_ToggleStatus ==
    /\ program = "part_000"
    /\ CanHandleClick
    /\ appRenderCounter < MaxRenders
    /\ isOnline' = ~isOnline
    /\ appRenderCounter' = appRenderCounter + 1
    /\ IF ~isOnline THEN MountChild(P000_deps, FALSE) ELSE UnmountChild
    /\ UNCHANGED <<program, isActive, stateToggle, pc, listeners, clicksLogged>>

P000_Effect ==
    /\ program = "part_000"
    /\ NextIs("create")
    /\ LET handleClick == Head(pending).h IN
       Ran(P000_effect(Window(listeners, calls), handleClick),
           <<handleClick>>)

P000_Cleanup ==
    /\ program = "part_000"
    /\ NextIs("destroy")
    /\ Ran(P000_cleanup(Window(listeners, calls), Head(pending).h),
           effDestroy)

----------------------------------------------------------------------------
(* src/unnamed/part_001: Child always rendered, no cleanup *)

P001_effect_hoisted(w, arrow) == addEventListener(w, Handler(0, 0))

\* window.addEventListener("click", () => console.log("click"));
P001_effect(w, arrow) == addEventListener(w, arrow)

\* "Toggle Status": setIsOnline(!isOnline); App renders again and so does
\* <Child />.
P001_ToggleStatus ==
    /\ program = "part_001"
    /\ CanHandleClick
    /\ appRenderCounter < MaxRenders
    /\ isOnline' = ~isOnline
    /\ appRenderCounter' = appRenderCounter + 1
    /\ childRenderCounter' = childRenderCounter + 1
    /\ Rerender(P001_deps, Handler(instance, childRenderCounter + 1), FALSE)
    /\ UNCHANGED <<program, isActive, stateToggle, pc, listeners, clicksLogged>>

\* The effect of Child runs; it returns no cleanup.
P001_Effect ==
    /\ program = "part_001"
    /\ NextIs("create")
    /\ Ran(P001_effect(Window(listeners, calls), Head(pending).h), <<>>)

----------------------------------------------------------------------------
(* src/README.md, Part Two: App's effect without a dependency array *)

\* window.addEventListener("click", () => console.log("click"));
PartTwo_effect(w, arrow) == addEventListener(w, arrow)

\* "Toggle Status": setIsOnline(!isOnline); App renders again.
PartTwo_ToggleStatus ==
    /\ program = "PartTwo"
    /\ CanHandleClick
    /\ appRenderCounter < MaxRenders
    /\ isOnline' = ~isOnline
    /\ appRenderCounter' = appRenderCounter + 1
    /\ Rerender(PartTwo_deps, Handler(0, appRenderCounter + 1), FALSE)
    /\ UNCHANGED <<program, isActive, stateToggle, childRenderCounter, pc,
                   listeners, clicksLogged>>

\* The effect of App runs; it returns no cleanup.
PartTwo_Effect ==
    /\ program = "PartTwo"
    /\ NextIs("create")
    /\ Ran(PartTwo_effect(Window(listeners, calls), Head(pending).h), <<>>)

----------------------------------------------------------------------------
(* src/README.md, TL;DR: App's effect with a cleanup and [stateToggle] *)

\* window.addEventListener("click", handleClick);
TLDR_effect(w, handleClick) == addEventListener(w, handleClick)

TLDR_cleanup_missing(w, handleClick) == w

\* return () => window.removeEventListener("click", handleClick);
TLDR_cleanup(w, handleClick) == removeEventListener(w, handleClick)

\* The "State" button: setStateToggle(!stateToggle); App renders again.
TLDR_ToggleState ==
    /\ program = "TLDR"
    /\ CanHandleClick
    /\ appRenderCounter < MaxRenders
    /\ stateToggle' = ~stateToggle
    /\ appRenderCounter' = appRenderCounter + 1
    /\ Rerender(TLDR_deps(~stateToggle), Handler(0, appRenderCounter + 1),
                FALSE)
    /\ UNCHANGED <<program, isOnline, isActive, childRenderCounter, pc,
                   listeners, clicksLogged>>

\* The effect of App runs: it declares handleClick, registers it and returns
\* the cleanup that removes it.
TLDR_Effect ==
    /\ program = "TLDR"
    /\ NextIs("create")
    /\ LET handleClick == Head(pending).h IN
       Ran(TLDR_effect(Window(listeners, calls), handleClick),
           <<handleClick>>)

\* The cleanup returned by the previous run of the effect of App runs.
TLDR_Cleanup ==
    /\ program = "TLDR"
    /\ NextIs("destroy")
    /\ Ran(TLDR_cleanup(Window(listeners, calls), Head(pending).h),
           effDestroy)

----------------------------------------------------------------------------
(* src/README.md, Part One: App registers the listener in its body *)

\* "Toggle Status": setIsOnline(!isOnline); App renders again, and the body
\* of App registers one more arrow function.
PartOne_ToggleStatus ==
    /\ program = "PartOne"
    /\ CanHandleClick
    /\ appRenderCounter < MaxRenders
    /\ isOnline' = ~isOnline
    /\ appRenderCounter' = appRenderCounter + 1
    /\ LET w == PartOne_body(Window(listeners, calls), appRenderCounter + 1) IN
       /\ listeners' = w.listeners
       /\ calls' = w.calls
    /\ UNCHANGED <<program, isActive, stateToggle, mounted, instance,
                   childRenderCounter, effDeps, effDestroy, pending, pc,
                   lastEval, clicksLogged>>

----------------------------------------------------------------------------
(* src/README.md, Part Three: the Child of part_001 rendered conditionally *)

\* "Toggle Status": setIsOnline(!isOnline); {isOnline ? <Child /> : null}
\* mounts or unmounts Child.  The effect of Child returned no cleanup, so
\* nothing is scheduled when Child is unmounted.
PartThree_ToggleStatus ==
    /\ program = "PartThree"
    /\ CanHandleClick
    /\ appRenderCounter < MaxRenders
    /\ isOnline' = ~isOnline
    /\ appRenderCounter' = appRenderCounter + 1
    /\ IF ~isOnline THEN MountChild(P001_deps, FALSE) ELSE UnmountChild
    /\ UNCHANGED <<program, isActive, stateToggle, pc, listeners,
                   clicksLogged>>

\* The effect of Child runs; it returns no cleanup.
PartThree_Effect ==
    /\ program = "PartThree"
    /\ NextIs("create")
    /\ Ran(P001_effect(Window(listeners, calls), Head(pending).h), <<>>)

----------------------------------------------------------------------------
\* A click anywhere on window: every registered listener logs "click".
WindowClick ==
    /\ pc = "idle"
    /\ clicksLogged' = Len(listeners)
    /\ UNCHANGED <<program, isOnline, isActive, stateToggle, mounted, instance,
                   appRenderCounter, childRenderCounter, effDeps, effDestroy,
                   pending, pc, listeners, calls, lastEval>>

Next ==
    \/ AppJs_ToggleStatus
    \/ AppJs_ToggleListener
    \/ AppJs_Effect
    \/ AppJs_Cleanup
    \/ P000_ToggleStatus
    \/ P000_Effect
    \/ P000_Cleanup
    \/ P001_ToggleStatus
    \/ P001_Effect
    \/ PartTwo_ToggleStatus
    \/ PartTwo_Effect
    \/ TLDR_ToggleState
    \/ TLDR_Effect
    \/ TLDR_Cleanup
    \/ PartOne_ToggleStatus
    \/ PartThree_ToggleStatus
    \/ PartThree_Effect
    \/ WindowClick

Spec == Init /\ [][Next]_vars

----------------------------------------------------------------------------
(* Properties *)

\* Every scheduled cleanup and effect has run.
Quiescent == pc = "idle" /\ pending = <<>>

\* The calls made on window since the last commit.
EvalCalls == SubSeq(calls, lastEval.from + 1, Len(calls))

\* The handlers on window that were registered by Child instance o.
HandlersOf(o) == SelectSeq(listeners, LAMBDA h : h.owner = o)

CountCalls(op) == Len(SelectSeq(calls, LAMBDA c : c.op = op))

HasChild == program \in {"App.js", "part_000"}

\* Child instance o has been unmounted and its cleanup has run.
Disposed(o) == o < instance \/ (o = instance /\ ~mounted /\ Quiescent)

\* C1: once a Child instance is unmounted and its cleanup has run, window
\* holds no click handler that this instance registered, whatever renders
\* the instance went through before.
C1_NoLeakedBinding ==
    HasChild =>
        \A o \in 1..instance : Disposed(o) => HandlersOf(o) = <<>>

\* A Child of App.js that had its handler registered (isActive was true when
\* it was unmounted) is disposed, and the cleanup presented that handler.
C1_Witness ==
    /\ program = "App.js"
    /\ ~mounted /\ Quiescent
    /\ lastEval.kind = "unmount"
    /\ isActive
    /\ Len(calls) >= 3
    /\ calls[Len(calls) - 1] = AddCall(lastEval.prev[1])
    /\ calls[Len(calls)] = RemoveCall(lastEval.prev[1])

\* C2: in every state of App.js, after any clicks on "Toggle Status" and
\* "Toggle Listener", window holds at most one click handler; the same holds
\* of the README's TL;DR program, whose cleanup removes the handler before
\* the effect registers the next one.
C2_AtMostOneBinding ==
    program \in {"App.js", "TLDR"} => Len(listeners) <= 1

\* A second Child instance has its handler on window after the first one
\* had its own registered and removed.
C2_Witness ==
    /\ program = "App.js"
    /\ instance >= 2
    /\ isActive
    /\ Len(listeners) = 1
    /\ listeners[1].owner = instance

\* C3 as stated: after a re-render of Child with a changed [isActive], the
\* calls made are one removeEventListener of the previous handler followed
\* by one addEventListener of the new handler.
C3_Original ==
    (program = "App.js" /\ lastEval.kind = "update" /\ Quiescent) =>
        EvalCalls = <<RemoveCall(lastEval.prev[1]), AddCall(lastEval.new)>>

\* C3: after a re-render of Child with a changed [isActive], the calls made
\* are one removeEventListener of the previous handler, followed by one
\* addEventListener of the new handler exactly when isActive is now true;
\* while the two run the removal comes first, and the previous and the new
\* handler are never both registered.
C3_RebindOnChange ==
    (program = "App.js" /\ lastEval.kind = "update") =>
        /\ ~(Contains(listeners, lastEval.prev[1])
             /\ Contains(listeners, lastEval.new))
        /\ pending # <<>> /\ pc = "idle" => EvalCalls = <<>>
        /\ pc = "flushing" => EvalCalls = <<RemoveCall(lastEval.prev[1])>>
        /\ Quiescent =>
             EvalCalls = <<RemoveCall(lastEval.prev[1])>>
                         \o (IF isActive THEN <<AddCall(lastEval.new)>>
                                         ELSE <<>>)

\* isActive has gone false -> true -> false -> true in one Child instance.
C3_Witness ==
    /\ program = "App.js"
    /\ lastEval.kind = "update"
    /\ Quiescent
    /\ isActive
    /\ Len(calls) >= 5
    /\ listeners = <<lastEval.new>>

\* C4 as stated: once the effect of a mounted Child has run, exactly one
\* handler of that Child is registered on window.
C4_Original ==
    (HasChild /\ mounted /\ Quiescent) => Len(HandlersOf(instance)) = 1

\* C4: once the effect of a mounted Child has run for the current
\* dependencies, window holds exactly one handler of that Child in part_000,
\* and in App.js exactly one when isActive is true and none when it is false;
\* the handler is the one created by the render whose effect ran.
C4_ExactlyOneWhileActive ==
    (HasChild /\ mounted /\ Quiescent) =>
        IF program = "App.js" /\ ~isActive
        THEN listeners = <<>>
        ELSE listeners = <<lastEval.new>> /\ lastEval.new.owner = instance

C4_Witness ==
    /\ program = "App.js"
    /\ mounted /\ Quiescent
    /\ isActive
    /\ listeners = <<Handler(instance, childRenderCounter)>>

\* C6: a Child whose effect has deps [] makes at most one addEventListener
\* call and no removeEventListener call while it is mounted, and exactly one
\* addEventListener call once its effect has run; in part_001, where Child
\* is always rendered, exactly one listener is on window after any number of
\* renders.
C6_EmptyDepsOnce ==
    (program \in {"part_000", "part_001"} /\ mounted) =>
        /\ CountCalls("add") <= 1
        /\ CountCalls("remove") = 0
        /\ Quiescent => CountCalls("add") = 1
        /\ (Quiescent /\ program = "part_001") => Len(listeners) = 1

\* Child of part_001 has rendered four times.
C6_Witness ==
    /\ program = "part_001"
    /\ Quiescent
    /\ childRenderCounter >= 4
    /\ lastEval.kind = "same"
    /\ listeners = <<Handler(1, 1)>>

\* C7: after a re-render of Child in which isActive became false, the
\* previous handler was removed and nothing was registered: window holds no
\* handler.
C7_TearDownWhenInactive ==
    (program = "App.js" /\ lastEval.kind = "update" /\ ~isActive
       /\ Quiescent) =>
        /\ EvalCalls = <<RemoveCall(lastEval.prev[1])>>
        /\ listeners = <<>>

\* isActive became false, and the handler removed was registered before.
C7_Witness ==
    /\ program = "App.js"
    /\ lastEval.kind = "update"
    /\ ~isActive
    /\ Quiescent
    /\ Len(calls) >= 2
    /\ calls[Len(calls) - 1] = AddCall(lastEval.prev[1])
    /\ calls[Len(calls)] = RemoveCall(lastEval.prev[1])

\* C8 as stated: when Child is unmounted while isActive is false, no call is
\* made on window.
C8_Original ==
    (program = "App.js" /\ lastEval.kind = "unmount" /\ ~isActive
       /\ Quiescent) =>
        EvalCalls = <<>>

\* C8: when Child is unmounted while isActive is false, its handler is not
\* registered; the cleanup makes one removeEventListener call with it, which
\* changes nothing, and no addEventListener call is made: window holds no
\* handler before and after.
C8_DisposeWithoutBinding ==
    (program = "App.js" /\ lastEval.kind = "unmount" /\ ~isActive) =>
        /\ listeners = <<>>
        /\ pending # <<>> => EvalCalls = <<>>
        /\ Quiescent => EvalCalls = <<RemoveCall(lastEval.prev[1])>>

C8_Witness ==
    /\ program = "App.js"
    /\ lastEval.kind = "unmount"
    /\ ~isActive
    /\ Quiescent
    /\ calls # <<>>
    /\ calls[Len(calls)] = RemoveCall(lastEval.prev[1])
    /\ CountCalls("add") = 0

\* C10 as stated: with no dependency array, after three runs of the effect
\* exactly one handler is registered on window.
C10_Original ==
    (program = "PartTwo" /\ Quiescent /\ appRenderCounter = 3) =>
        Len(listeners) = 1

\* C10: with no dependency array (README Part Two) the effect runs after
\* every render of App; it returns no cleanup, so every run registers a new
\* handler and none is ever removed: after n renders n handlers are on
\* window.
C10_NoDepsAccumulates ==
    program = "PartTwo" =>
        /\ CountCalls("remove") = 0
        /\ Quiescent =>
             /\ Len(listeners) = appRenderCounter
             /\ calls = [i \in 1..appRenderCounter |-> AddCall(Handler(0, i))]
             /\ listeners = [i \in 1..appRenderCounter |-> Handler(0, i)]

C10_Witness ==
    /\ program = "PartTwo"
    /\ Quiescent
    /\ appRenderCounter = 3
    /\ Len(listeners) = 3

\* The number of clicks on "Toggle Status": every click renders App once
\* more, after the first render.
Toggles == appRenderCounter - 1

C12_MissingCleanupLeaks ==
    program = "PartThree" =>
        /\ CountCalls("remove") = 0
        /\ Quiescent => listeners = [i \in 1..instance |-> Handler(i, i)]
        /\ ~Quiescent =>
             /\ mounted
             /\ listeners = [i \in 1..(instance - 1) |-> Handler(i, i)]

\* Child was mounted twice and is unmounted; both listeners are on window.
C12_Witness ==
    /\ program = "PartThree"
    /\ Quiescent
    /\ ~mounted
    /\ instance = 2
    /\ Len(listeners) = 2

\* The programs whose effect returns a cleanup.
HasCleanup == program \in {"App.js", "part_000", "TLDR"}

\* The removeEventListener calls among the calls made since the last commit.
EvalRemoves == SelectSeq(EvalCalls, LAMBDA c : c.op = "remove")

\* C13: a cleanup presents to removeEventListener the handleClick of the
\* render whose effect run returned it, although every render creates a new
\* handleClick: the cleanup kept by an effect run holds the handler of that
\* run's render; a handler that was registered is removed by the very next
\* call; a cleanup whose run registered nothing presents a handler that was
\* never registered; and no two cleanups present the same handler.
C13_SameReference ==
    HasCleanup =>
        /\ (Quiescent /\ lastEval.kind \in {"mount", "update"}) =>
             effDestroy = <<lastEval.new>>
        /\ lastEval.kind \in {"update", "unmount"} =>
             /\ Len(EvalRemoves) <= 1
             /\ \A i \in 1..Len(EvalRemoves) :
                   EvalRemoves[i] = RemoveCall(lastEval.prev[1])
        /\ \A i \in 1..Len(calls) :
             /\ (calls[i].op = "add" /\ i < Len(calls)) =>
                   calls[i + 1] = RemoveCall(calls[i].h)
             /\ calls[i].op = "remove" =>
                   /\ \A j \in 1..Len(calls) :
                         (j # i /\ calls[j].op = "remove") =>
                             calls[j].h # calls[i].h
                   /\ \A j \in 1..Len(calls) :
                         calls[j] = AddCall(calls[i].h) => j = i - 1

\* One Child of App.js: the cleanup of the first render presented a handler
\* that was not registered, the second render registered its own handler and
\* the cleanup of that run removed it.
C13_Witness ==
    /\ program = "App.js"
    /\ Len(calls) >= 3
    /\ calls[1].op = "remove"
    /\ calls[2].op = "add"
    /\ calls[2].h.render = calls[1].h.render + 1
    /\ calls[3] = RemoveCall(calls[2].h)

\* C14: in App.js, whenever every scheduled cleanup and effect has run, a
\* click handler is on window exactly when isOnline and isActive are both
\* true, and it is then the handleClick of the last render of the mounted
\* Child.
C14_ListenerIffOnlineAndActive ==
    (program = "App.js" /\ Quiescent) =>
        /\ mounted = isOnline
        /\ listeners # <<>> <=> (isOnline /\ isActive)
        /\ listeners # <<>> =>
             listeners = <<Handler(instance, childRenderCounter)>>

\* The handler of a mounted, active Child has logged a click on window.
C14_Witness ==
    /\ program = "App.js"
    /\ Quiescent
    /\ isOnline
    /\ isActive
    /\ Len(listeners) = 1
    /\ clicksLogged = 1

\* C15: in App.js a Child that is mounted starts with isActive = false,
\* whatever isActive was in the instance before it, and window holds no
\* click handler from the mount until "Toggle Listener" is clicked.
C15_RemountStartsInactive ==
    /\ [](program = "App.js" /\ lastEval.kind = "mount" =>
            /\ mounted
            /\ ~isActive
            /\ listeners = <<>>)
    /\ [][(program = "App.js" /\ ~mounted /\ mounted') =>
            (~isActive' /\ lastEval'.kind = "mount")]_vars

\* A second Child is mounted and its effect has run; a click on window was
\* logged by the handler of the first Child, which was active, and none is
\* registered now.
C15_Witness ==
    /\ program = "App.js"
    /\ lastEval.kind = "mount"
    /\ Quiescent
    /\ instance = 2
    /\ clicksLogged = 1
    /\ ~isActive
    /\ listeners = <<>>

====
